---------------------------- MODULE Spec2Model ----------------------------
(***************************************************************************)
(* Bed registry and bed assignment of the hospital management backend      *)
(* (src/app.py, src/models.py).                                            *)
(*                                                                         *)
(* Representation of values:                                               *)
(*   - Python str / JSON string / SQL text  -> TLA+ string                 *)
(*   - None / JSON null / SQL NULL in a string-typed place -> NULL         *)
(*   - patient ids are integers >= 1; None / JSON null / SQL NULL in the   *)
(*     integer-typed patient_id place -> NoPatient (Python treats both     *)
(*     None and 0 as false in `not patient_id` and `a or b`)               *)
(*   - a JSON object -> a function whose DOMAIN is the set of keys present *)
(*   - the bed table -> the sequence of its rows in insertion order        *)
(***************************************************************************)
EXTENDS Integers, Sequences, FiniteSets, TLC

VARIABLES
    beds,       \* table `bed`: sequence of rows
    patients,   \* table `patient`: set of patient ids
    reqs,       \* per client: the request it is running / has last run
    issued      \* number of requests counted against MaxRequests so far

vars == <<beds, patients, reqs, issued>>

---------------------------------------------------------------------------
(* Bounds *)

NumClients == 2       \* clients that may have a request in flight at once
MaxRequests == 4      \* counted requests in one run
MaxPatientId == 2     \* patient ids are 1..MaxPatientId

Clients == 1..NumClients
PatientIds == 1..MaxPatientId

---------------------------------------------------------------------------
(* Values *)

NULL == "<NULL>"
NoPatient == 0

\* Python truthiness of a str-or-None and of an int-or-None
TruthyStr(v) == v # NULL /\ v # ""
TruthyInt(v) == v # NoPatient

\* Python `a or b`
OrStr(a, b) == IF TruthyStr(a) THEN a ELSE b
OrInt(a, b) == IF TruthyInt(a) THEN a ELSE b

\* dict.get(key) and dict.get(key, default)
GetStr(data, key) == IF key \in DOMAIN data THEN data[key] ELSE NULL
GetInt(data, key) == IF key \in DOMAIN data THEN data[key] ELSE NoPatient
GetDefault(data, key, default) == IF key \in DOMAIN data THEN data[key] ELSE default

---------------------------------------------------------------------------
(* SQL text matching *)

UpperChars == "ABCDEFGHIJKLMNOPQRSTUVWXYZ"
LowerChars == "abcdefghijklmnopqrstuvwxyz"

\* SQLite LIKE compares ASCII letters without regard to case
FoldChar(c) ==
    IF \E i \in 1..Len(UpperChars) : SubSeq(UpperChars, i, i) = c
    THEN LET i == CHOOSE i \in 1..Len(UpperChars) : SubSeq(UpperChars, i, i) = c
         IN  SubSeq(LowerChars, i, i)
    ELSE c

\* SQLite `s LIKE pattern`: % matches any run of characters, _ any one character
RECURSIVE Like(_, _)
Like(s, pattern) ==
    IF pattern = "" THEN s = ""
    ELSE LET p == SubSeq(pattern, 1, 1)
             rest == SubSeq(pattern, 2, Len(pattern))
         IN  IF p = "%"
             THEN \E k \in 0..Len(s) : Like(SubSeq(s, k + 1, Len(s)), rest)
             ELSE /\ s # ""
                  /\ (p = "_" \/ FoldChar(p) = FoldChar(SubSeq(s, 1, 1)))
                  /\ Like(SubSeq(s, 2, Len(s)), rest)

\* Column.contains(other): column LIKE '%' || other || '%'
Contains(column, other) == Like(column, "%" \o other \o "%")

---------------------------------------------------------------------------
(* The bed table *)

\* Bed(bed_no=..., ward=..., status=...): patient_id is not given, so None
Bed(bed_no, ward, status) ==
    [bed_no |-> bed_no, ward |-> ward, status |-> status, patient_id |-> NoPatient]

\* the result of .first() when no row matches
NoBed == [bed_no |-> NULL, ward |-> NULL, status |-> NULL, patient_id |-> NoPatient]

\* Query.first(): the first matching row in table order, or None
First(table, matching) ==
    IF matching = {} THEN NoBed
    ELSE table[CHOOSE i \in matching : \A j \in matching : i <= j]

\* Bed.query.filter_by(bed_no=bed_no, ward=ward).first()
FilterByBedNoWard(table, bed_no, ward) ==
    First(table, {i \in DOMAIN table : table[i].bed_no = bed_no /\ table[i].ward = ward})

\* Bed.query.filter(Bed.bed_no == bed_no, Bed.ward.contains(ward)).first()
FilterWardContains(table, bed_no, ward) ==
    First(table, {i \in DOMAIN table :
                    table[i].bed_no = bed_no /\ Contains(table[i].ward, ward)})

\* the row that holds primary key bed_no (refresh of an expired object)
RowByKey(table, bed_no) ==
    First(table, {i \in DOMAIN table : table[i].bed_no = bed_no})

\* PrimaryKeyFree as it would be were bed_no not declared primary_key
PrimaryKeyFree_Unchecked(table, bed_no) == TRUE

\* bed_no is the primary key: a second row with the same bed_no is refused
PrimaryKeyFree(table, bed_no) ==
    \A i \in DOMAIN table : table[i].bed_no # bed_no

\* INSERT of a new Bed: a None status is left out, so the column default applies
InsertRow(bed) ==
    [bed EXCEPT !.status = IF @ = NULL THEN "Available" ELSE @]

\* UPDATE bed SET <changed columns> WHERE bed_no = <key>: the unit of work
\* writes only the attributes whose value differs from the one it loaded
UpdateRow(table, loaded, obj) ==
    [i \in DOMAIN table |->
        IF table[i].bed_no = loaded.bed_no
        THEN [table[i] EXCEPT
                !.status = IF obj.status # loaded.status THEN obj.status ELSE @,
                !.patient_id = IF obj.patient_id # loaded.patient_id
                               THEN obj.patient_id ELSE @]
        ELSE table[i]]

\* GET /beds
get_beds(table) == table

---------------------------------------------------------------------------
(* Requests and responses *)

\* a request body: unparsable, or a JSON object
BadJson == [ok |-> FALSE, data |-> <<>>]
Json(data) == [ok |-> TRUE, data |-> data]

\* jsonify({...}), status code; bed fields are NULL / NoPatient when the
\* response carries only a msg
Response(code, msg, bed) ==
    [code |-> code, msg |-> msg, bed_no |-> bed.bed_no, ward |-> bed.ward,
     status |-> bed.status, patient_id |-> bed.patient_id]

NoResponse == Response(0, "", NoBed)

\* a client with no request: no handler frame
Idle ==
    [op |-> "idle", pc |-> "idle", bed_no |-> NULL, ward |-> NULL, status |-> NULL,
     patient_id |-> NoPatient, bed |-> NoBed, resp |-> NoResponse]

\* a handler frame: its local variables bed_no, ward, status, patient_id and
\* bed (the object as loaded), and the place it has reached
Frame(op, pc, bed_no, ward, status, patient_id, bed) ==
    [op |-> op, pc |-> pc, bed_no |-> bed_no, ward |-> ward, status |-> status,
     patient_id |-> patient_id, bed |-> bed, resp |-> NoResponse]

\* the handler has returned: the request as it ran, with its response
Return(frame, code, msg, bed) ==
    [frame EXCEPT !.pc = "done", !.resp = Response(code, msg, bed)]

---------------------------------------------------------------------------
(* POST /beds *)

\* UpsertApply as it would be were the update guarded by the occupancy check
\* of assign_bed
UpsertApply_Guarded(bed, status) ==
    IF bed.status = "Occupied" THEN bed
    ELSE [bed EXCEPT !.status = status,
                     !.patient_id = IF status = "Available" THEN NoPatient ELSE @]

\* UpsertApply as it would be were line 211 to test the bed's stored status
\* in place of the requested one
UpsertApply_StoredStatus(bed, status) ==
    [bed EXCEPT !.status = status,
                !.patient_id = IF bed.status = "Available" THEN NoPatient ELSE @]

\* UpsertApply without lines 211-212: the status is set, the occupant kept
UpsertApply_KeepPatient(bed, status) == [bed EXCEPT !.status = status]

\* bed.status = status; if status == 'Available': bed.patient_id = None
UpsertApply(bed, status) ==
    [bed EXCEPT !.status = status,
                !.patient_id = IF status = "Available" THEN NoPatient ELSE @]

\* parse, read the fields, validate, look the bed up
UpsertBegin(table, body) ==
    LET frame0 == Frame("upsert", "begin", NULL, NULL, NULL, NoPatient, NoBed)
    IN
    IF ~body.ok THEN Return(frame0, 400, "Invalid JSON", NoBed)
    ELSE IF DOMAIN body.data = {} THEN Return(frame0, 400, "Empty payload", NoBed)
    ELSE
      LET bed_no == GetStr(body.data, "bed_no")
          ward == GetStr(body.data, "ward")
          status == GetDefault(body.data, "status", "Available")
          frame == Frame("upsert", "commit", bed_no, ward, status, NoPatient, NoBed)
      IN  IF ~TruthyStr(bed_no) \/ ~TruthyStr(ward)
          THEN Return(frame, 400, "bed_no and ward are required", NoBed)
          ELSE [frame EXCEPT !.bed = FilterByBedNoWard(table, bed_no, ward)]

\* the table after db.session.commit() of the upsert
UpsertCommitTable(table, frame) ==
    IF frame.bed # NoBed
    THEN UpdateRow(table, frame.bed, UpsertApply(frame.bed, frame.status))
    ELSE IF PrimaryKeyFree(table, frame.bed_no)
    THEN Append(table, InsertRow(Bed(frame.bed_no, frame.ward, frame.status)))
    ELSE table

\* the frame after db.session.commit() of the upsert: the INSERT of a second
\* row with the same primary key raises IntegrityError, which nothing catches
UpsertCommitFrame(table, frame) ==
    IF frame.bed # NoBed
    THEN [frame EXCEPT !.pc = "respond", !.resp = Response(200, "Bed status updated", NoBed)]
    ELSE IF PrimaryKeyFree(table, frame.bed_no)
    THEN [frame EXCEPT !.pc = "respond", !.resp = Response(201, "Bed created", NoBed)]
    ELSE Return(frame, 500, "IntegrityError", NoBed)

---------------------------------------------------------------------------
(* POST /assign-bed *)

\* IsOccupied as it would be without the check of line 269
IsOccupied_Never(bed) == FALSE

\* if bed.status == 'Occupied'
IsOccupied(bed) == bed.status = "Occupied"

\* bed.status = 'Occupied'; bed.patient_id = patient_id
AssignApply(bed, patient_id) ==
    [bed EXCEPT !.status = "Occupied", !.patient_id = patient_id]

\* AssignMissing as it would be were patient_id not validated in line 256
AssignMissing_NoPatient(bed_no, ward, patient_id) ==
    ~TruthyStr(bed_no) \/ ~TruthyStr(ward)

\* if not bed_no or not ward or not patient_id
AssignMissing(bed_no, ward, patient_id) ==
    ~TruthyStr(bed_no) \/ ~TruthyStr(ward) \/ ~TruthyInt(patient_id)

\* a bed was resolved: the conflict check
AssignCheck(frame, bed) ==
    IF IsOccupied(bed)
    THEN Return([frame EXCEPT !.bed = bed], 400, "Bed already occupied", NoBed)
    ELSE [frame EXCEPT !.pc = "commit", !.bed = bed]

\* parse, read the fields, validate, look the bed up by exact match
AssignBegin(table, body) ==
    LET frame0 == Frame("assign", "begin", NULL, NULL, NULL, NoPatient, NoBed)
    IN
    IF ~body.ok THEN Return(frame0, 400, "Invalid JSON", NoBed)
    ELSE IF DOMAIN body.data = {} THEN Return(frame0, 400, "Empty payload", NoBed)
    ELSE
      LET bed_no == OrStr(GetStr(body.data, "bed_no"), GetStr(body.data, "bedNo"))
          ward == GetStr(body.data, "ward")
          patient_id == OrInt(GetInt(body.data, "patient_id"),
                              GetInt(body.data, "patientId"))
          frame == Frame("assign", "fuzzy", bed_no, ward, NULL, patient_id, NoBed)
      IN  IF AssignMissing(bed_no, ward, patient_id)
          THEN Return(frame, 400, "bed_no, ward, and patient_id are required", NoBed)
          ELSE LET bed == FilterByBedNoWard(table, bed_no, ward)
               IN  IF bed # NoBed THEN AssignCheck(frame, bed) ELSE frame

\* no exact match: look the bed up by ward containment
AssignFuzzy(table, frame) ==
    LET bed == FilterWardContains(table, frame.bed_no, frame.ward)
    IN  IF bed # NoBed THEN AssignCheck(frame, bed)
        ELSE Return(frame, 404,
                    "Bed not found with bed_no=" \o frame.bed_no
                        \o " and ward=" \o frame.ward, NoBed)

\* the table after db.session.commit() of the assignment
AssignCommitTable(table, frame) ==
    UpdateRow(table, frame.bed, AssignApply(frame.bed, frame.patient_id))

\* the frame after db.session.commit() of the assignment
AssignCommitFrame(table, frame) ==
    [frame EXCEPT !.pc = "respond", !.resp = Response(200, "Bed assigned", NoBed)]

---------------------------------------------------------------------------
(* Building the response of either handler *)

\* the primary key of the handler's bed object
BedKey(frame) == IF frame.bed # NoBed THEN frame.bed.bed_no ELSE frame.bed_no

\* commit expired the object, so reading bed.bed_no, bed.ward, bed.status and
\* bed.patient_id for the response loads the row again
Respond(table, frame) ==
    Return(frame, frame.resp.code, frame.resp.msg, RowByKey(table, BedKey(frame)))

---------------------------------------------------------------------------
(* Whole requests: a handler run from its first line to its return with no *)
(* other request in between                                                *)

UpsertRun(table, body) ==
    LET f1 == UpsertBegin(table, body)
        t2 == UpsertCommitTable(table, f1)
        f2 == UpsertCommitFrame(table, f1)
    IN  IF f1.pc = "done" THEN [beds |-> table, frame |-> f1]
        ELSE IF f2.pc = "done" THEN [beds |-> t2, frame |-> f2]
        ELSE [beds |-> t2, frame |-> Respond(t2, f2)]

AssignRun(table, body) ==
    LET f0 == AssignBegin(table, body)
        f1 == IF f0.pc = "fuzzy" THEN AssignFuzzy(table, f0) ELSE f0
        t2 == AssignCommitTable(table, f1)
        f2 == AssignCommitFrame(table, f1)
    IN  IF f1.pc = "done" THEN [beds |-> table, frame |-> f1]
        ELSE [beds |-> t2, frame |-> Respond(t2, f2)]

---------------------------------------------------------------------------
(* Request bodies *)

BedNos == {"101", "102"}
Wards == {"Ward A", "A"}
Statuses == {"Available", "Occupied", "Maintenance"}

\* the body without one key, and with one key set
Without(data, key) == [k \in DOMAIN data \ {key} |-> data[k]]
With(data, key, value) == (key :> value) @@ Without(data, key)

\* POST /beds bodies with bed_no and ward, with and without status
UpsertValid ==
    {[bed_no |-> b, ward |-> w] : b \in BedNos, w \in Wards}
    \cup {[bed_no |-> b, ward |-> w, status |-> s] :
            b \in BedNos, w \in Wards, s \in Statuses}

\* bodies that lack a field, hold an empty or null one, or use the bedNo key
UpsertOdd ==
    LET base == [bed_no |-> "101", ward |-> "Ward A"]
    IN  { <<>>,
          Without(base, "bed_no"), Without(base, "ward"),
          With(base, "bed_no", ""), With(base, "ward", ""),
          With(base, "bed_no", NULL), With(base, "ward", NULL),
          With(Without(base, "bed_no"), "bedNo", "101"),
          With(With(base, "bed_no", "102"), "bedNo", "101") }

UpsertBodies == {BadJson} \cup {Json(d) : d \in UpsertValid \cup UpsertOdd}

\* POST /assign-bed bodies with bed_no, ward and patient_id; the ward is one
\* that is stored, or a stored one in other letter case
AssignValid ==
    {[bed_no |-> b, ward |-> w, patient_id |-> p] :
        b \in BedNos, w \in Wards \cup {"ward a"}, p \in PatientIds}

\* bodies that lack a field, hold an empty or null one, or use the camelCase keys
AssignOdd ==
    LET base == [bed_no |-> "101", ward |-> "Ward A", patient_id |-> 1]
    IN  { <<>>,
          Without(base, "bed_no"), Without(base, "ward"), Without(base, "patient_id"),
          With(base, "bed_no", ""), With(base, "ward", ""),
          With(base, "patient_id", NoPatient),
          With(Without(base, "bed_no"), "bedNo", "101"),
          With(With(base, "bed_no", "102"), "bedNo", "101"),
          With(Without(base, "patient_id"), "patientId", MaxPatientId),
          With(base, "patientId", MaxPatientId) }

AssignBodies == {BadJson} \cup {Json(d) : d \in AssignValid \cup AssignOdd}

---------------------------------------------------------------------------
(* The handlers, one action per stretch of a handler between two of its    *)
(* database statements.  The development server runs each request in its   *)
(* own thread, each with its own session.  A handler reaches the database  *)
(* at its queries, at its commit and at the reload of the attributes that  *)
(* the commit expired; each statement is atomic, and a SELECT holds no     *)
(* lock after it returns, so other requests' statements may come between   *)
(* them.                                                                   *)

Init ==
    /\ beds = <<>>
    /\ patients = {}
    /\ reqs = [c \in Clients |-> Idle]
    /\ issued = 0

\* client c has no request in progress
Free(c) == reqs[c].pc \in {"idle", "done"}

\* POST /beds up to and including the SELECT of line 206
create_or_update_bed_begin(c, body) ==
    /\ Free(c)
    /\ reqs' = [reqs EXCEPT ![c] = UpsertBegin(beds, body)]
    /\ UNCHANGED <<beds, patients>>

\* POST /beds: db.session.commit() of line 213 or 229
create_or_update_bed_commit(c) ==
    /\ reqs[c].op = "upsert" /\ reqs[c].pc = "commit"
    /\ beds' = UpsertCommitTable(beds, reqs[c])
    /\ reqs' = [reqs EXCEPT ![c] = UpsertCommitFrame(beds, reqs[c])]
    /\ UNCHANGED <<patients, issued>>

\* POST /beds: the return of line 214 or 230
create_or_update_bed_respond(c) ==
    /\ reqs[c].op = "upsert" /\ reqs[c].pc = "respond"
    /\ reqs' = [reqs EXCEPT ![c] = Respond(beds, reqs[c])]
    /\ UNCHANGED <<beds, patients, issued>>

\* POST /assign-bed up to and including the SELECT of line 260
assign_bed_begin(c, body) ==
    /\ Free(c)
    /\ reqs' = [reqs EXCEPT ![c] = AssignBegin(beds, body)]
    /\ UNCHANGED <<beds, patients>>

\* POST /assign-bed: the SELECT of line 263 and the checks after it
assign_bed_fuzzy(c) ==
    /\ reqs[c].op = "assign" /\ reqs[c].pc = "fuzzy"
    /\ reqs' = [reqs EXCEPT ![c] = AssignFuzzy(beds, reqs[c])]
    /\ UNCHANGED <<beds, patients, issued>>

\* POST /assign-bed: db.session.commit() of line 274
assign_bed_commit(c) ==
    /\ reqs[c].op = "assign" /\ reqs[c].pc = "commit"
    /\ beds' = AssignCommitTable(beds, reqs[c])
    /\ reqs' = [reqs EXCEPT ![c] = AssignCommitFrame(beds, reqs[c])]
    /\ UNCHANGED <<patients, issued>>

\* POST /assign-bed: the return of line 275
assign_bed_respond(c) ==
    /\ reqs[c].op = "assign" /\ reqs[c].pc = "respond"
    /\ reqs' = [reqs EXCEPT ![c] = Respond(beds, reqs[c])]
    /\ UNCHANGED <<beds, patients, issued>>

\* POST /patients bodies: with a name, and without one
PatientBodies == {BadJson, Json([name |-> "n"]), Json([age |-> "1"])}

\* the id of the next patient row: SQLite gives an INTEGER PRIMARY KEY one
\* more than the largest in the table
NextPatientId ==
    IF patients = {} THEN 1
    ELSE 1 + CHOOSE p \in patients : \A q \in patients : q <= p

\* POST /patients up to and including db.session.commit() of line 136:
\* request.json of a body that is not JSON is answered 400 by Flask;
\* data['name'] of a body without a name raises KeyError, which nothing
\* catches; otherwise the row is inserted
create_patient_commit(c, body) ==
    LET frame == Frame("create_patient", "respond", NULL, NULL, NULL, NextPatientId, NoBed)
        failed == [frame EXCEPT !.patient_id = NoPatient]
    IN  /\ Free(c)
        /\ IF ~body.ok
           THEN /\ patients' = patients
                /\ reqs' = [reqs EXCEPT ![c] = Return(failed, 400, "Bad Request", NoBed)]
           ELSE IF "name" \notin DOMAIN body.data
           THEN /\ patients' = patients
                /\ reqs' = [reqs EXCEPT ![c] = Return(failed, 500, "KeyError", NoBed)]
           ELSE /\ NextPatientId <= MaxPatientId
                /\ patients' = patients \cup {NextPatientId}
                /\ reqs' = [reqs EXCEPT ![c] =
                              [frame EXCEPT !.resp = Response(201, "Patient registered", NoBed)]]
        /\ UNCHANGED beds

\* POST /patients: the return of line 138, which reloads the row that the
\* commit expired; if the row is gone the reload raises ObjectDeletedError
create_patient_respond(c) ==
    /\ reqs[c].op = "create_patient" /\ reqs[c].pc = "respond"
    /\ reqs' = [reqs EXCEPT ![c] =
                  IF reqs[c].patient_id \in patients
                  THEN Return(reqs[c], 201, "Patient registered", NoBed)
                  ELSE Return(reqs[c], 500, "ObjectDeletedError", NoBed)]
    /\ UNCHANGED <<beds, patients, issued>>

\* DELETE /patients/<patient_id> up to and including Patient.query.get
delete_patient_begin(c, patient_id) ==
    LET frame == Frame("delete_patient", "commit", NULL, NULL, NULL, patient_id, NoBed)
    IN  /\ Free(c)
        /\ reqs' = [reqs EXCEPT ![c] =
                      IF patient_id \in patients THEN frame
                      ELSE Return(frame, 404, "Patient not found", NoBed)]
        /\ UNCHANGED <<beds, patients>>

\* delete_patient_commit as it would be were the beds of the deleted patient
\* vacated with the patient (ON DELETE SET NULL and a status reset)
delete_patient_commit_Vacating(c) ==
    /\ reqs[c].op = "delete_patient" /\ reqs[c].pc = "commit"
    /\ patients' = patients \ {reqs[c].patient_id}
    /\ beds' = [i \in DOMAIN beds |->
                  IF beds[i].patient_id = reqs[c].patient_id
                  THEN [beds[i] EXCEPT !.status = "Available", !.patient_id = NoPatient]
                  ELSE beds[i]]
    /\ reqs' = [reqs EXCEPT ![c] = Return(reqs[c], 200, "Patient deleted", NoBed)]
    /\ UNCHANGED issued

\* DELETE /patients/<patient_id>: db.session.commit() of line 155 and the
\* return.  The patient row is deleted (a DELETE that matches no row any
\* more is not an error); no bed row is read or written: the foreign key of
\* Bed.patient_id is not enforced, since the connection never turns PRAGMA
\* foreign_keys on
delete_patient_commit(c) ==
    /\ reqs[c].op = "delete_patient" /\ reqs[c].pc = "commit"
    /\ patients' = patients \ {reqs[c].patient_id}
    /\ reqs' = [reqs EXCEPT ![c] = Return(reqs[c], 200, "Patient deleted", NoBed)]
    /\ UNCHANGED <<beds, issued>>

\* a request that counts against the bound on requests, and one that does not
Counted == issued < MaxRequests /\ issued' = issued + 1
Uncounted == issued' = issued

---------------------------------------------------------------------------
(* One client that sends its next request when the last is answered: the   *)
(* requests do not overlap.                                                *)

NextSeq ==
    \/ \E body \in UpsertBodies : Uncounted /\ create_or_update_bed_begin(1, body)
    \/ create_or_update_bed_commit(1)
    \/ create_or_update_bed_respond(1)
    \/ \E body \in AssignBodies : Uncounted /\ assign_bed_begin(1, body)
    \/ assign_bed_fuzzy(1)
    \/ assign_bed_commit(1)
    \/ assign_bed_respond(1)

SpecSeq == Init /\ [][NextSeq]_vars

---------------------------------------------------------------------------
(* Several clients whose requests overlap; MaxRequests requests in all.    *)

\* bodies of the requests that overlap
ConcUpsertBodies ==
    {Json([bed_no |-> "101", ward |-> "Ward A", status |-> s]) :
        s \in {"Available", "Occupied"}}

ConcAssignBodies ==
    {Json([bed_no |-> "101", ward |-> w, patient_id |-> p]) :
        w \in Wards, p \in PatientIds}

Next ==
    \/ \E c \in Clients, body \in ConcUpsertBodies :
          Counted /\ create_or_update_bed_begin(c, body)
    \/ \E c \in Clients : create_or_update_bed_commit(c)
    \/ \E c \in Clients : create_or_update_bed_respond(c)
    \/ \E c \in Clients, body \in ConcAssignBodies :
          Counted /\ assign_bed_begin(c, body)
    \/ \E c \in Clients : assign_bed_fuzzy(c)
    \/ \E c \in Clients : assign_bed_commit(c)
    \/ \E c \in Clients : assign_bed_respond(c)

Spec == Init /\ [][Next]_vars

---------------------------------------------------------------------------
(* The same service over longer histories: MaxRequests bounds the requests *)
(* of the clients other than the first, and the first client sends any     *)
(* number of requests, each after its last one was answered.  Every        *)
(* request runs statement by statement and overlaps with the others'.      *)

Budget(c) == IF c = 1 THEN Uncounted ELSE Counted

NextMixed ==
    \/ \E c \in Clients, body \in ConcUpsertBodies :
          Budget(c) /\ create_or_update_bed_begin(c, body)
    \/ \E c \in Clients : create_or_update_bed_commit(c)
    \/ \E c \in Clients : create_or_update_bed_respond(c)
    \/ \E c \in Clients, body \in ConcAssignBodies :
          Budget(c) /\ assign_bed_begin(c, body)
    \/ \E c \in Clients : assign_bed_fuzzy(c)
    \/ \E c \in Clients : assign_bed_commit(c)
    \/ \E c \in Clients : assign_bed_respond(c)

SpecMixed == Init /\ [][NextMixed]_vars

---------------------------------------------------------------------------
(* The bed endpoints together with the patient registry's, for several     *)
(* clients whose requests overlap; MaxRequests requests in all.            *)

\* the bed requests are those that create a bed, set its status and assign it
RegistryUpsertBodies ==
    {Json([bed_no |-> "101", ward |-> "Ward A", status |-> s]) :
        s \in {"Available", "Occupied"}}

RegistryAssignBodies ==
    {Json([bed_no |-> "101", ward |-> "A", patient_id |-> p]) : p \in PatientIds}

NextRegistry ==
    \/ \E c \in Clients, body \in RegistryUpsertBodies :
          Counted /\ create_or_update_bed_begin(c, body)
    \/ \E c \in Clients : create_or_update_bed_commit(c)
    \/ \E c \in Clients : create_or_update_bed_respond(c)
    \/ \E c \in Clients, body \in RegistryAssignBodies :
          Counted /\ assign_bed_begin(c, body)
    \/ \E c \in Clients : assign_bed_fuzzy(c)
    \/ \E c \in Clients : assign_bed_commit(c)
    \/ \E c \in Clients : assign_bed_respond(c)
    \/ \E c \in Clients, body \in PatientBodies :
          Counted /\ create_patient_commit(c, body)
    \/ \E c \in Clients : create_patient_respond(c)
    \/ \E c \in Clients, p \in PatientIds : Counted /\ delete_patient_begin(c, p)
    \/ \E c \in Clients : delete_patient_commit(c)

SpecRegistry == Init /\ [][NextRegistry]_vars

---------------------------------------------------------------------------
(* Properties *)

\* the rows of a table
RowsOf(table) == {table[i] : i \in DOMAIN table}

\* the table holds a record for the pair
HasPair(table, bed_no, ward) ==
    \E bed \in RowsOf(table) : bed.bed_no = bed_no /\ bed.ward = ward

\* client c's request was answered with msg
Answered(c, op, msg) ==
    reqs[c].op = op /\ reqs[c].pc = "done" /\ reqs[c].resp.msg = msg

\* client c's assignment has been written (it is, or will be, answered 'Bed assigned')
Assigned(c) == reqs[c].op = "assign" /\ reqs[c].resp.msg = "Bed assigned"

\* In the one-client service reqs[1] is, once the request has returned, that
\* request: the operation, the bed_no, ward, status and patient_id it read
\* from its body (aliases and defaults resolved), the bed it found, and its
\* response.
last == reqs[1]

\* the step is the last statement of the client's request before the reload
\* for the response: the validation or lookup that fails, or the commit;
\* beds is then the registry the request found and beds' the one it leaves
Ends ==
    /\ reqs'[1] # reqs[1]
    /\ reqs[1].pc # "respond"
    /\ reqs'[1].pc \in {"done", "respond"}

\* the request as it returns when no other request comes before its reload
Finished == IF reqs'[1].pc = "respond" THEN Respond(beds', reqs'[1]) ELSE reqs'[1]

\* the step is a POST /beds request with a bed_no and a ward
UpsertStep ==
    Ends /\ Finished.op = "upsert" /\ Finished.bed_no \notin {NULL, ""} /\ Finished.ward \notin {NULL, ""}

\* the step is a POST /assign-bed request with a bed_no, a ward and a patient_id
AssignStep ==
    /\ Ends /\ Finished.op = "assign"
    /\ Finished.bed_no \notin {NULL, ""} /\ Finished.ward \notin {NULL, ""}
    /\ Finished.patient_id # NoPatient

\* C1: of two concurrent POST /assign-bed requests that resolved the same bed
\* while it was not Occupied, at most one succeeds: once one of them has
\* written its assignment ('Bed assigned') and the bed is Occupied, the
\* other does not write its own assignment over it.
C1_AtMostOneAssigned ==
    [][\A c, d \in Clients :
         ( /\ c # d
           /\ Assigned(d)
           /\ reqs[c].op = "assign" /\ reqs[c].pc = "commit"
           /\ reqs[c].bed.bed_no = reqs[d].bed.bed_no
           /\ IsOccupied(RowByKey(beds, reqs[c].bed.bed_no)) )
         => ~assign_bed_commit(c)]_vars

\* sub occurs in s as a run of consecutive characters (case-sensitive)
IsSubstring(sub, s) ==
    \E i \in 1..(Len(s) - Len(sub) + 1) : SubSeq(s, i, i + Len(sub) - 1) = sub

\* the rows a request naming (bed_no, ward) is about: the ward is the one
\* stored, or a part of it
Targets(table, bed_no, ward) ==
    {bed \in RowsOf(table) :
        bed.bed_no = bed_no /\ (bed.ward = ward \/ IsSubstring(ward, bed.ward))}

\* C2: assignBed on a bed that is Occupied fails with 400 'Bed already
\* occupied' and leaves the registry as it was, whoever the bed's occupant
\* and whoever the request's patient; so does the repetition of an
\* assignment that has just succeeded.
C2_OccupiedBedConflict ==
    [][( /\ AssignStep
         /\ \/ \E bed \in Targets(beds, Finished.bed_no, Finished.ward) :
                  bed.status = "Occupied"
            \/ /\ Answered(1, "assign", "Bed assigned")
               /\ Finished.bed_no = last.bed_no /\ Finished.ward = last.ward
               /\ Finished.patient_id = last.patient_id )
       => /\ Finished.resp.code = 400 /\ Finished.resp.msg = "Bed already occupied"
          /\ beds' = beds]_vars

\* C2 witness: an assignment of another patient to a bed Occupied by a
\* patient was answered with the conflict, and the bed is as it was.
C2_Witness ==
    /\ Answered(1, "assign", "Bed already occupied")
    /\ last.bed.status = "Occupied"
    /\ last.bed.patient_id \in PatientIds
    /\ last.patient_id \in PatientIds \ {last.bed.patient_id}
    /\ RowByKey(beds, last.bed.bed_no) = last.bed

\* C3: every bed record whose status is Available has patient_id null.
C3_AvailableHasNoPatient ==
    \A bed \in RowsOf(beds) : bed.status = "Available" => bed.patient_id = NoPatient

\* C4: an upsert for a (bed_no, ward) pair that has no record creates the
\* record and reports 'Bed created', also when the bed_no has a record in
\* another ward.
C4_UnseenPairCreated ==
    [][(UpsertStep /\ ~HasPair(beds, Finished.bed_no, Finished.ward))
       => /\ HasPair(beds', Finished.bed_no, Finished.ward)
          /\ Finished.resp.code = 201 /\ Finished.resp.msg = "Bed created"]_vars

\* the bed the registry resolves for (bed_no, ward): the exact match, or
\* else the match by ward containment, or else none
Resolve(table, bed_no, ward) ==
    LET exact == FilterByBedNoWard(table, bed_no, ward)
    IN  IF exact # NoBed THEN exact ELSE FilterWardContains(table, bed_no, ward)

\* C5: assignBed answers 400 when bed_no, ward or patient_id is missing or
\* empty; otherwise 404 when no bed resolves; otherwise 400 'Bed already
\* occupied' when the resolved bed is Occupied; otherwise it succeeds: the
\* resolved bed is then Occupied by the given patient, and the response
\* says so.  Every failure leaves the registry as it was.
C5_AssignChecksInOrder ==
    [][(Ends /\ Finished.op = "assign") =>
         LET bed == Resolve(beds, Finished.bed_no, Finished.ward)
             assigned == [bed EXCEPT !.status = "Occupied",
                                     !.patient_id = Finished.patient_id]
         IN  IF ~AssignStep
             THEN Finished.resp.code = 400 /\ beds' = beds
             ELSE IF bed = NoBed
             THEN Finished.resp.code = 404 /\ beds' = beds
             ELSE IF bed.status = "Occupied"
             THEN /\ Finished.resp.code = 400
                  /\ Finished.resp.msg = "Bed already occupied"
                  /\ beds' = beds
             ELSE /\ RowByKey(beds', bed.bed_no) = assigned
                  /\ Finished.resp = Response(200, "Bed assigned", assigned)]_vars

\* C5 witness: an assignment was answered 'Bed assigned' and the bed it
\* resolved, not Occupied before, is Occupied by the request's patient.
C5_Witness ==
    /\ Answered(1, "assign", "Bed assigned")
    /\ last.bed.status # "Occupied"
    /\ last.patient_id \in PatientIds
    /\ RowByKey(beds, last.bed.bed_no).status = "Occupied"
    /\ RowByKey(beds, last.bed.bed_no).patient_id = last.patient_id
    /\ last.resp.patient_id = last.patient_id

\* C6: the registry holds at most one bed record per (bed_no, ward) pair.
C6_OneRecordPerPair ==
    \A i, j \in DOMAIN beds :
        (beds[i].bed_no = beds[j].bed_no /\ beds[i].ward = beds[j].ward) => i = j

\* C6 witness: two concurrent upserts that both found no record for the same
\* pair have both committed.
C6_Witness ==
    \E c, d \in Clients :
        /\ c # d
        /\ reqs[c].op = "upsert" /\ reqs[d].op = "upsert"
        /\ reqs[c].pc \in {"respond", "done"} /\ reqs[d].pc = "done"
        /\ reqs[c].bed = NoBed /\ reqs[d].bed = NoBed
        /\ reqs[c].bed_no = reqs[d].bed_no /\ reqs[c].ward = reqs[d].ward
        /\ reqs[c].resp.code = 201 /\ reqs[d].resp.code = 500

\* C7: every bed record's status is Available or Occupied.
C7_StatusInEnum ==
    \A bed \in RowsOf(beds) : bed.status \in {"Available", "Occupied"}

\* C8: every bed record whose status is Occupied has a patient_id.
C8_OccupiedHasPatient ==
    \A bed \in RowsOf(beds) : bed.status = "Occupied" => bed.patient_id # NoPatient

\* C9: an upsert with status 'Available' for a pair that has a record leaves
\* that record Available with patient_id null, whatever it was before, and
\* reports 'Bed status updated' with the record.
C9_UpsertAvailableVacates ==
    [][( /\ UpsertStep
         /\ Finished.status = "Available"
         /\ HasPair(beds, Finished.bed_no, Finished.ward) )
       => LET vacated == Bed(Finished.bed_no, Finished.ward, "Available")
          IN  /\ RowByKey(beds', Finished.bed_no) = vacated
              /\ Finished.resp = Response(200, "Bed status updated", vacated)]_vars

\* C9 witness: an upsert with status 'Available' found the bed Occupied by a
\* patient and left it Available with no patient.
C9_Witness ==
    /\ Answered(1, "upsert", "Bed status updated")
    /\ last.status = "Available"
    /\ last.bed.status = "Occupied" /\ last.bed.patient_id \in PatientIds
    /\ RowByKey(beds, last.bed.bed_no).status = "Available"
    /\ RowByKey(beds, last.bed.bed_no).patient_id = NoPatient

\* C10: an upsert with status omitted for a pair that has no record adds
\* exactly one record to what GET /beds returns, that pair's, Available and
\* with patient_id null, and answers 201 'Bed created'; for a pair that has
\* a record it adds none and answers 200 'Bed status updated'.
C10_UpsertAddsOneRecord ==
    [][(UpsertStep /\ Finished.status = "Available")
       => IF ~HasPair(beds, Finished.bed_no, Finished.ward)
          THEN /\ get_beds(beds') =
                    Append(get_beds(beds), Bed(Finished.bed_no, Finished.ward, "Available"))
               /\ Finished.resp.code = 201 /\ Finished.resp.msg = "Bed created"
          ELSE /\ Len(get_beds(beds')) = Len(get_beds(beds))
               /\ Finished.resp.code = 200 /\ Finished.resp.msg = "Bed status updated"]_vars

\* the POST /beds body that names the pair with status 'Available'
AvailableBody(bed_no, ward) ==
    Json([bed_no |-> bed_no, ward |-> ward, status |-> "Available"])

\* C11: upsert(b, w, 'Available') is idempotent on the registry: right after
\* one such request, the same request once more leaves every bed record
\* (keys, status, patient_id) as the first left it.
C11_UpsertAvailableIdempotent ==
    [][(UpsertStep /\ Finished.status = "Available")
       => UpsertRun(beds', AvailableBody(Finished.bed_no, Finished.ward)).beds = beds']_vars

\* C11 witness: an upsert with status 'Available' has vacated a bed that was
\* Occupied by a patient, and the same request again would leave the
\* registry as it is.
C11_Witness ==
    /\ Answered(1, "upsert", "Bed status updated")
    /\ last.status = "Available"
    /\ last.bed.status = "Occupied" /\ last.bed.patient_id \in PatientIds
    /\ RowByKey(beds, last.bed.bed_no).patient_id = NoPatient
    /\ UpsertRun(beds, AvailableBody(last.bed_no, last.ward)).beds = beds
    /\ UpsertRun(beds, AvailableBody(last.bed_no, last.ward)).frame.resp.code = 200

\* the bed a request naming (bed_no, ward) is to resolve: the exact match,
\* or else the first bed of that bed_no whose stored ward contains the given
\* ward as a substring, or else none
ResolveBySubstring(table, bed_no, ward) ==
    LET exact == FilterByBedNoWard(table, bed_no, ward)
    IN  IF exact # NoBed THEN exact
        ELSE First(table, {i \in DOMAIN table :
                             table[i].bed_no = bed_no /\ IsSubstring(ward, table[i].ward)})

\* C12: assignBed resolves the exact match on (bed_no, ward) when there is
\* one; otherwise the bed of that bed_no whose stored ward contains the
\* given ward as a substring ('Ward A' for 'A'); otherwise no bed.
C12_ExactThenSubstring ==
    [][AssignStep => Finished.bed = ResolveBySubstring(beds, Finished.bed_no, Finished.ward)]_vars

\* the body with the value of the camelCase key moved under the snake-case
\* key, unless the snake-case key is present, and the camelCase key removed
Renamed(data, camel, snake) ==
    IF camel \notin DOMAIN data THEN data
    ELSE IF snake \in DOMAIN data THEN Without(data, camel)
    ELSE With(Without(data, camel), snake, data[camel])

SnakeCase(body) ==
    IF ~body.ok THEN body
    ELSE Json(Renamed(Renamed(body.data, "bedNo", "bed_no"), "patientId", "patient_id"))

\* the request bodies that carry a camelCase key
CamelBodies(bodies) ==
    {body \in bodies : body.ok /\ DOMAIN body.data \cap {"bedNo", "patientId"} # {}}

\* C13: a POST /beds or POST /assign-bed request that carries bedNo (or
\* patientId) is handled as the same request with the value under bed_no
\* (patient_id): the handler reads the same fields, validates them alike and
\* finds the same bed, and so goes on alike; when both keys are present the
\* snake-case value is the one used.
C13_AliasesEquivalent ==
    [][/\ \A body \in CamelBodies(UpsertBodies) :
            create_or_update_bed_begin(1, body)
            => reqs'[1] = UpsertBegin(beds, SnakeCase(body))
       /\ \A body \in CamelBodies(AssignBodies) :
            assign_bed_begin(1, body)
            => reqs'[1] = AssignBegin(beds, SnakeCase(body))]_vars

\* client c's request has ended in one of the error outcomes
Failed(c) == reqs[c].pc = "done" /\ reqs[c].resp.code \in {400, 404}

\* C14: a POST /beds or POST /assign-bed request that ends in 400 or 404 has
\* written nothing (none of its steps changes the registry, and it ends
\* before its commit), and the commit of an assignment leaves the bed with
\* both of the request's writes: status Occupied and the request's patient.
C14_NoPartialWrite ==
    [][\A c \in Clients :
         /\ (reqs'[c] # reqs[c] /\ reqs'[c].pc \in {"fuzzy", "commit"}) => beds' = beds
         /\ (reqs'[c] # reqs[c] /\ Failed(c)')
                => (beds' = beds /\ reqs[c].pc \in {"idle", "done", "fuzzy"})
         /\ assign_bed_commit(c)
                => LET bed == RowByKey(beds', reqs[c].bed.bed_no)
                   IN  bed.status = "Occupied" /\ bed.patient_id = reqs[c].patient_id]_vars

\* C15: an upsert for a pair that has a record succeeds whatever the record's
\* status and occupant and whatever the requested status: it answers 200
\* 'Bed status updated', the record's status is the requested one, its
\* patient_id is null if the requested status is 'Available' and as before
\* otherwise, and every other record is as before.
C15_UpsertNotGuarded ==
    [][(UpsertStep /\ HasPair(beds, Finished.bed_no, Finished.ward))
       => LET before == FilterByBedNoWard(beds, Finished.bed_no, Finished.ward)
              after == [before EXCEPT
                          !.status = Finished.status,
                          !.patient_id = IF Finished.status = "Available"
                                         THEN NoPatient ELSE @]
          IN  /\ Finished.resp = Response(200, "Bed status updated", after)
              /\ DOMAIN beds' = DOMAIN beds
              /\ \A i \in DOMAIN beds :
                    beds'[i] = IF beds[i] = before THEN after ELSE beds[i]]_vars

\* C15 witness: an upsert with a status other than 'Available' found the bed
\* Occupied by a patient; the bed now has the requested status and the same
\* patient.
C15_Witness ==
    /\ Answered(1, "upsert", "Bed status updated")
    /\ last.status = "Maintenance"
    /\ last.bed.status = "Occupied" /\ last.bed.patient_id \in PatientIds
    /\ RowByKey(beds, last.bed.bed_no).status = "Maintenance"
    /\ RowByKey(beds, last.bed.bed_no).patient_id = last.bed.patient_id

\* a request: the operation and its body
Request(op, body) == [op |-> op, body |-> body]

\* the requests with every field given
ValidRequests ==
    {Request("upsert", Json(d)) : d \in UpsertValid}
    \cup {Request("assign", Json(d)) : d \in AssignValid}

\* the request that a finished frame ran, with the fields as the handler read them
RequestOf(frame) ==
    IF frame.op = "upsert"
    THEN Request("upsert", Json([bed_no |-> frame.bed_no, ward |-> frame.ward,
                                 status |-> frame.status]))
    ELSE Request("assign", Json([bed_no |-> frame.bed_no, ward |-> frame.ward,
                                 patient_id |-> frame.patient_id]))

\* the registry after the request has run alone
After(table, request) ==
    IF request.op = "upsert" THEN UpsertRun(table, request.body).beds
    ELSE AssignRun(table, request.body).beds

\* the key of a record, and the key of the bed a request is for: the pair an
\* upsert names, the record an assignment resolves (<<>> if it resolves none)
KeyOf(bed) == <<bed.bed_no, bed.ward>>

TargetOf(table, request) ==
    IF request.op = "upsert"
    THEN <<request.body.data.bed_no, request.body.data.ward>>
    ELSE LET bed == Resolve(table, request.body.data.bed_no, request.body.data.ward)
         IN  IF bed = NoBed THEN <<>> ELSE KeyOf(bed)

\* C16: a request leaves every record other than its own bed's as it was,
\* and two requests for different beds leave the same records in either
\* order: for the request r of the step and every request q for another
\* bed, q after r and r after q end in the same registry.
C16_DifferentBedsIndependent ==
    [][(UpsertStep \/ AssignStep)
       => LET r == RequestOf(Finished)
              target == TargetOf(beds, r)
          IN  /\ \A bed \in RowsOf(beds) : KeyOf(bed) # target => bed \in RowsOf(beds')
              /\ \A q \in ValidRequests :
                    (target # <<>> /\ TargetOf(beds, q) \notin {<<>>, target})
                    => RowsOf(After(beds', q)) = RowsOf(After(After(beds, q), r))]_vars

\* the keys of the records of a table
KeysOf(table) == {KeyOf(bed) : bed \in RowsOf(table)}

\* C17: no request removes a bed record; POST /assign-bed adds none; POST
\* /patients and DELETE /patients/<id> leave every bed record as it was,
\* also when the deleted patient occupies a bed.
C17_BedsOnlyByUpsertAndAssign ==
    [][/\ KeysOf(beds) \subseteq KeysOf(beds')
       /\ \A c \in Clients :
            /\ (reqs'[c] # reqs[c] /\ reqs'[c].op = "assign")
                   => KeysOf(beds') = KeysOf(beds)
            /\ (reqs'[c] # reqs[c] /\ reqs'[c].op \in {"create_patient", "delete_patient"})
                   => beds' = beds]_vars

\* C17 witness: the patient who occupies a bed has been deleted, and the bed
\* is still Occupied by that patient.
C17_Witness ==
    /\ last.op = "delete_patient" /\ last.resp.msg = "Patient deleted"
    /\ last.patient_id \notin patients
    /\ \E bed \in RowsOf(beds) :
          bed.status = "Occupied" /\ bed.patient_id = last.patient_id

\* C18: no request changes a bed's patient_id from one patient to another,
\* and the only request that takes a bed's patient away is an upsert with
\* status 'Available'; so between two occupants of a bed there is a state
\* in which such an upsert has left the bed without a patient.
C18_NoReassignWithoutVacating ==
    [][\A i \in DOMAIN beds :
         /\ (beds[i].patient_id # NoPatient /\ beds'[i].patient_id # NoPatient)
                => beds'[i].patient_id = beds[i].patient_id
         /\ (beds[i].patient_id # NoPatient /\ beds'[i].patient_id = NoPatient)
                => (reqs'[1].op = "upsert" /\ reqs'[1].status = "Available")]_vars

\* the rows the fuzzy lookup of assign_bed matches for (bed_no, ward)
Candidates(table, bed_no, ward) ==
    {i \in DOMAIN table : table[i].bed_no = bed_no /\ Contains(table[i].ward, ward)}

\* C19: the registry holds at most one bed record per bed_no, so the fuzzy
\* lookup of assignBed matches at most one record, whatever the bed_no and
\* ward asked for.
C19_OneRecordPerBedNo ==
    /\ \A i, j \in DOMAIN beds : beds[i].bed_no = beds[j].bed_no => i = j
    /\ \A bed_no \in BedNos, ward \in Wards \cup {"", "%"} :
          Cardinality(Candidates(beds, bed_no, ward)) <= 1

\* C19 witness: an upsert for a second ward of a stored bed_no has been
\* refused, and a lookup that matches every ward finds the one record of
\* that bed_no.
C19_Witness ==
    /\ last.op = "upsert" /\ last.pc = "done" /\ last.resp.code = 500
    /\ ~HasPair(beds, last.bed_no, last.ward)
    /\ Cardinality(Candidates(beds, last.bed_no, "%")) = 1
    /\ Len(beds) = Cardinality(BedNos)

===========================================================================
